---- MODULE Spec2Model ----
(***************************************************************************)
(* The three Flask applications of the repository:                         *)
(*   "separate"   2. Separate Ends/api/app.py                              *)
(*   "ssr"        02_separate_ends_with_ssr/api/app.py                     *)
(*   "blueprints" 03_flask_blueprints/app.py with api/api.py and           *)
(*                client/client.py                                         *)
(* Each module is executed top to bottom (Building), then the host serves  *)
(* requests on the application object from several request threads        *)
(* (Serving).  URLs are sequences of tokens: "/" is the separator, every   *)
(* other token is one path segment.  The Flask calls the modules make are  *)
(* modelled by what Flask (>= 1.1, required by the dict return values)     *)
(* does for them.                                                          *)
(***************************************************************************)
EXTENDS Integers, Sequences, FiniteSets, TLC

VARIABLES variant, pc, state, url_map, blueprints, cors, fs, threads

vars == <<variant, pc, state, url_map, blueprints, cors, fs, threads>>

\* Number of request threads of the host.
NThreads == 2

Threads == 1..NThreads

Variants == {"separate", "ssr", "blueprints"}

----------------------------------------------------------------------------
\* Strings as token sequences

RECURSIVE RStrip(_)
\* str.rstrip("/")
RStrip(s) ==
  IF s # <<>> /\ s[Len(s)] = "/" THEN RStrip(SubSeq(s, 1, Len(s) - 1)) ELSE s

RECURSIVE LStrip(_)
\* str.lstrip("/")
LStrip(s) ==
  IF s # <<>> /\ s[1] = "/" THEN LStrip(Tail(s)) ELSE s

IsPrefix(p, s) == Len(p) <= Len(s) /\ SubSeq(s, 1, Len(p)) = p

\* The segments of a path: str.split("/") without the empty pieces.
Segments(s) == SelectSeq(s, LAMBDA x : x # "/")

----------------------------------------------------------------------------
\* Route registration

\* methods of a rule registered without methods=: ("GET",), to which the
\* routing layer adds HEAD and Flask adds OPTIONS.
DefaultMethods == {"GET", "HEAD", "OPTIONS"}

Rule(rule, endpoint) ==
  [rule |-> rule, methods |-> DefaultMethods, endpoint |-> endpoint]

\* Flask(__name__): static_folder defaults to "static", static_url_path to
\* "/static"; the constructor adds the rule /static/<path:filename>.
FlaskStaticRule == Rule(<<"/", "static", "/", "<path:filename>">>, <<"static">>)

\* api_bp = Blueprint('api_bp', __name__) with @api_bp.route("/greeting")
api_bp ==
  [name |-> "api_bp",
   has_static_folder |-> FALSE,
   static_folder |-> <<>>,
   static_url_path |-> <<>>,
   deferred |-> << [rule |-> <<"/", "greeting">>, view |-> "greeting"] >>]

\* client_bp = Blueprint('client_bp', __name__, template_folder='templates',
\*   static_folder='static', static_url_path='/client/static')
\* with @client_bp.route('/')
client_bp ==
  [name |-> "client_bp",
   has_static_folder |-> TRUE,
   static_folder |-> <<"client", "static">>,
   static_url_path |-> <<"/", "client", "/", "static">>,
   deferred |-> << [rule |-> <<"/">>, view |-> "index"] >>]

\* Faulty variant: prefix and rule concatenated as they are.
UrlConcat(url_prefix, rule) == url_prefix \o rule

\* url_prefix and rule joined as register_blueprint does it:
\* "/".join((url_prefix.rstrip("/"), rule.lstrip("/"))), or the prefix
\* alone for an empty rule.
UrlJoin(url_prefix, rule) ==
  IF rule # <<>> THEN RStrip(url_prefix) \o <<"/">> \o LStrip(rule)
  ELSE url_prefix

\* Faulty variant: the url_prefix option is ignored.
ResolvedRuleWithoutPrefix(options, rule) == rule

\* The rule a blueprint route gets under the options of register_blueprint:
\* joined to url_prefix when one is given, unchanged otherwise.
ResolvedRule(options, rule) ==
  IF "url_prefix" \in DOMAIN options THEN UrlJoin(options.url_prefix, rule)
  ELSE rule

\* The rules register_blueprint(bp, **options) adds to the url map: the
\* static rule first when the blueprint has a static folder, then the
\* blueprint's routes in the order of their decorators; every endpoint is
\* prefixed with the blueprint's name.
BlueprintRules(bp, options) ==
  LET static ==
        IF bp.has_static_folder
        THEN << Rule(ResolvedRule(options,
                       bp.static_url_path \o <<"/", "<path:filename>">>),
                     <<bp.name, "static">>) >>
        ELSE << >>
      routes ==
        [i \in DOMAIN bp.deferred |->
           Rule(ResolvedRule(options, bp.deferred[i].rule),
                <<bp.name, bp.deferred[i].view>>)]
  IN static \o routes

\* Faulty variant: the api blueprint registered without url_prefix.
ApiOptionsWithoutPrefix == [x \in {} |-> <<>>]

\* The options of the two register_blueprint calls of 03_flask_blueprints.
ApiOptions == [url_prefix |-> <<"/", "api_v1">>]

ClientOptions == [x \in {} |-> <<>>]

\* Faulty variant: the route is registered with a trailing slash.
AppGreetingRuleTrailingSlash ==
  Rule(<<"/", "greeting", "/">>, <<"greeting">>)

\* The rule of @app.route("/greeting") in the two single-file variants.
AppGreetingRule == Rule(<<"/", "greeting">>, <<"greeting">>)

----------------------------------------------------------------------------
\* Request handling

\* Methods and paths of the requests the host receives.
Methods == {"GET", "POST", "OPTIONS"}

RequestPaths ==
  { <<"/">>,
    <<"/", "greeting">>,
    <<"/", "api_v1", "/", "greeting">>,
    <<"/", "unknown">>,
    <<"/", "static", "/", "..", "/", "etc", "/", "passwd">>,
    <<"/", "client", "/", "static", "/", "app.js">>,
    <<"/", "client", "/", "static", "/", "js", "/", "..", "/", "app.js">>,
    <<"/", "client", "/", "static", "/", "..", "/", "..", "/", "etc", "/", "passwd">> }

NoRoute == [error |-> "", endpoint |-> << >>, filename |-> << >>]

NoResponse == [status |-> 0, body |-> [data |-> ""], cors |-> FALSE]

\* A request thread with no request.
Idle ==
  [pc |-> "idle", method |-> "", path |-> << >>, route |-> NoRoute,
   resp |-> NoResponse]

\* A rule matches a path that equals it; a rule ending in <path:filename>
\* matches a path that continues its fixed part with a non-empty filename
\* that does not start with "/".
RuleMatches(rule, path) ==
  IF rule # << >> /\ rule[Len(rule)] = "<path:filename>"
  THEN LET fixed == SubSeq(rule, 1, Len(rule) - 1)
       IN /\ IsPrefix(fixed, path)
          /\ Len(path) > Len(fixed)
          /\ path[Len(fixed) + 1] # "/"
  ELSE path = rule

\* The value of <path:filename> for a path the rule matches.
ViewArgs(rule, path) ==
  IF rule # << >> /\ rule[Len(rule)] = "<path:filename>"
  THEN SubSeq(path, Len(rule), Len(path))
  ELSE << >>

\* Faulty variant: a lookup keyed by (method, path), which cannot tell a path
\* registered under another method from an unknown path.
MatchByMethodAndPath(map, method, path) ==
  LET onBoth == {i \in DOMAIN map : /\ RuleMatches(map[i].rule, path)
                                    /\ method \in map[i].methods}
  IN IF onBoth # {}
     THEN LET i == CHOOSE j \in onBoth : \A k \in onBoth : j <= k
          IN [error |-> "", endpoint |-> map[i].endpoint,
              filename |-> ViewArgs(map[i].rule, path)]
     ELSE [error |-> "NotFound", endpoint |-> << >>, filename |-> << >>]

\* URL matching of a request against the url map: the first rule that
\* matches path and method; MethodNotAllowed when rules match the path but
\* none of them the method; NotFound when no rule matches the path.
Match(map, method, path) ==
  LET onPath == {i \in DOMAIN map : RuleMatches(map[i].rule, path)}
      onBoth == {i \in onPath : method \in map[i].methods}
  IN IF onBoth # {}
     THEN LET i == CHOOSE j \in onBoth : \A k \in onBoth : j <= k
          IN [error |-> "", endpoint |-> map[i].endpoint,
              filename |-> ViewArgs(map[i].rule, path)]
     ELSE IF onPath # {}
     THEN [error |-> "MethodNotAllowed", endpoint |-> << >>, filename |-> << >>]
     ELSE [error |-> "NotFound", endpoint |-> << >>, filename |-> << >>]

RECURSIVE NormPath(_, _)
\* posixpath.normpath of a relative path, on its segments: "." is dropped
\* and ".." removes the segment before it, or stays when there is none.
NormPath(segs, done) ==
  IF segs = << >> THEN done
  ELSE LET s == Head(segs)
       IN IF s = "." THEN NormPath(Tail(segs), done)
          ELSE IF s = ".." /\ done # << >> /\ done[Len(done)] # ".."
          THEN NormPath(Tail(segs), SubSeq(done, 1, Len(done) - 1))
          ELSE NormPath(Tail(segs), Append(done, s))

NotAFile == << "<none>" >>

\* Faulty variant: the filename is joined to the directory and normalised with no
\* check that it stays under the directory.
unsafe_join(directory, filename) ==
  NormPath(directory \o Segments(filename), << >>)

\* safe_join(directory, filename): the normalised filename under the
\* directory, or nothing when it is ".." or starts with "../".
safe_join(directory, filename) ==
  LET norm == NormPath(Segments(filename), << >>)
  IN IF norm # << >> /\ norm[1] = ".." THEN NotAFile
     ELSE directory \o norm

\* The 200 response Flask makes of a view's return value; flask_cors, when
\* initialised, adds its headers to every response.
MakeResponse(body) == [status |-> 200, body |-> body, cors |-> cors]

\* The response of an HTTP error raised while handling a request.
ErrorResponse(error) ==
  [status |-> IF error = "NotFound" THEN 404 ELSE 405,
   body |-> [error |-> error], cors |-> cors]

\* def greeting(): return {'greeting': 'Hello from Flask!'}
greeting == [greeting |-> "Hello from Flask!"]

\* def index(): return render_template('index.html')
index == [template |-> "index.html"]

\* The static folder an endpoint ...static serves: the application's, or
\* that of the registered blueprint the endpoint names.
StaticFolderOf(endpoint) ==
  IF Len(endpoint) = 1 THEN <<"static">>
  ELSE LET i == CHOOSE j \in DOMAIN blueprints :
                  blueprints[j].name = endpoint[1]
       IN blueprints[i].static_folder

\* send_static_file(filename): send_from_directory(static_folder, filename)
\* raises NotFound when safe_join refuses the filename or the joined path
\* is no file, and sends the file otherwise.
send_static_file(endpoint, filename) ==
  LET path == safe_join(StaticFolderOf(endpoint), filename)
  IN IF path = NotAFile \/ path \notin fs THEN ErrorResponse("NotFound")
     ELSE MakeResponse([file |-> path])

\* Faulty variant: one request context shared by all threads, that of the first
\* thread with a matched request.
SharedRequest(t) ==
  threads[CHOOSE u \in Threads :
            /\ threads[u].pc = "matched"
            /\ \A v \in Threads : threads[v].pc = "matched" => u <= v]

\* The request context of a thread (context-local in Flask).
RequestOf(t) == threads[t]

\* Handling of a matched request: the routing error if there is one, the
\* automatic OPTIONS response, or the response made of the view's result.
FullDispatch(req) ==
  IF req.route.error # "" THEN ErrorResponse(req.route.error)
  ELSE IF req.method = "OPTIONS" THEN MakeResponse([data |-> ""])
  ELSE LET view == req.route.endpoint[Len(req.route.endpoint)]
       IN IF view = "greeting" THEN MakeResponse(greeting)
          ELSE IF view = "index" THEN MakeResponse(index)
          ELSE send_static_file(req.route.endpoint, req.route.filename)

----------------------------------------------------------------------------
\* Module execution (Building)

Init ==
  /\ variant \in Variants
  /\ pc = "start"
  /\ state = "Building"
  /\ url_map = << >>
  /\ blueprints = << >>
  /\ cors = FALSE
  /\ fs \in { {<<"etc", "passwd">>} \cup s :
                s \in SUBSET { <<"client", "static", "app.js">> } }
  /\ threads = [t \in Threads |-> Idle]

\* app = Flask(__name__)
FlaskInit ==
  /\ pc = "start"
  /\ url_map' = << FlaskStaticRule >>
  /\ pc' = "app"
  /\ UNCHANGED <<variant, state, blueprints, cors, fs, threads>>

\* CORS(app)
InitCors ==
  /\ variant = "ssr"
  /\ pc = "app"
  /\ cors' = TRUE
  /\ pc' = "cors"
  /\ UNCHANGED <<variant, state, url_map, blueprints, fs, threads>>

\* @app.route("/greeting")
Route ==
  /\ \/ variant = "separate" /\ pc = "app"
     \/ variant = "ssr" /\ pc = "cors"
  /\ url_map' = Append(url_map, AppGreetingRule)
  /\ pc' = "loaded"
  /\ UNCHANGED <<variant, state, blueprints, cors, fs, threads>>

\* app.register_blueprint(bp, **options): the blueprint is recorded and its
\* rules are added to the url map.
register_blueprint(bp, options) ==
  /\ blueprints' = Append(blueprints, bp)
  /\ url_map' = url_map \o BlueprintRules(bp, options)

\* app.register_blueprint(api_bp, url_prefix='/api_v1')
RegisterApi ==
  /\ variant = "blueprints"
  /\ pc = "app"
  /\ register_blueprint(api_bp, ApiOptions)
  /\ pc' = "api"
  /\ UNCHANGED <<variant, state, cors, fs, threads>>

\* app.register_blueprint(client_bp)
RegisterClient ==
  /\ variant = "blueprints"
  /\ pc = "api"
  /\ register_blueprint(client_bp, ClientOptions)
  /\ pc' = "loaded"
  /\ UNCHANGED <<variant, state, cors, fs, threads>>

\* The module has been executed; the host starts serving its app object.
StartServing ==
  /\ pc = "loaded"
  /\ state = "Building"
  /\ state' = "Serving"
  /\ UNCHANGED <<variant, pc, url_map, blueprints, cors, fs, threads>>

----------------------------------------------------------------------------
\* Request threads (Serving)

\* A thread receives a request; pushing its request context matches the
\* URL against the url map.
Receive(t, method, path) ==
  /\ state = "Serving"
  /\ threads[t].pc = "idle"
  /\ threads' = [threads EXCEPT ![t] =
       [pc |-> "matched", method |-> method, path |-> path,
        route |-> Match(url_map, method, path), resp |-> NoResponse]]
  /\ UNCHANGED <<variant, pc, state, url_map, blueprints, cors, fs>>

\* Faulty variant: dispatching also records a rule for the requested path in the
\* url map.
DispatchRegistering(t) ==
  /\ threads[t].pc = "matched"
  /\ threads' = [threads EXCEPT ![t].pc = "done",
                                ![t].resp = FullDispatch(RequestOf(t))]
  /\ url_map' = IF threads[t].route.error = "NotFound"
                THEN Append(url_map, Rule(threads[t].path, <<"greeting">>))
                ELSE url_map
  /\ UNCHANGED <<variant, pc, state, blueprints, cors, fs>>

\* The thread dispatches its request and has the response.
Dispatch(t) ==
  /\ threads[t].pc = "matched"
  /\ threads' = [threads EXCEPT ![t].pc = "done",
                                ![t].resp = FullDispatch(RequestOf(t))]
  /\ UNCHANGED <<variant, pc, state, url_map, blueprints, cors, fs>>

\* The response is sent and the thread is free again.
Finish(t) ==
  /\ threads[t].pc = "done"
  /\ threads' = [threads EXCEPT ![t] = Idle]
  /\ UNCHANGED <<variant, pc, state, url_map, blueprints, cors, fs>>

Next ==
  \/ FlaskInit
  \/ InitCors
  \/ Route
  \/ RegisterApi
  \/ RegisterClient
  \/ StartServing
  \/ \E t \in Threads, method \in Methods, path \in RequestPaths :
       Receive(t, method, path)
  \/ \E t \in Threads : Dispatch(t)
  \/ \E t \in Threads : Finish(t)

Spec == Init /\ [][Next]_vars

----------------------------------------------------------------------------
\* Properties

Done(t) == threads[t].pc = "done"

Handled(t, method, path) ==
  Done(t) /\ threads[t].method = method /\ threads[t].path = path

\* C1: in the variants that register /greeting on the application itself,
\* every GET /greeting answered in the serving state is a 200 response whose
\* body is {"greeting": "Hello from Flask!"}, whatever else was or is being
\* requested.
C1_GreetingOnApp ==
  \A t \in Threads :
    (variant \in {"separate", "ssr"} /\ Handled(t, "GET", <<"/", "greeting">>))
      => /\ threads[t].resp.status = 200
         /\ threads[t].resp.body = [greeting |-> "Hello from Flask!"]

C1_Witness ==
  /\ variant = "ssr"
  /\ Handled(1, "GET", <<"/", "greeting">>)
  /\ Handled(2, "POST", <<"/", "unknown">>)
  /\ threads[1].resp.status = 200

\* C2: with the api blueprint (single route GET /greeting) mounted under
\* /api_v1, GET /api_v1/greeting is answered by that blueprint's greeting
\* view and the body is its output {"greeting": "Hello from Flask!"}, with
\* nothing added or removed.
C2_MountedGreeting ==
  \A t \in Threads :
    (variant = "blueprints"
       /\ Handled(t, "GET", <<"/", "api_v1", "/", "greeting">>))
      => /\ threads[t].route.endpoint = <<"api_bp", "greeting">>
         /\ threads[t].resp.status = 200
         /\ threads[t].resp.body = [greeting |-> "Hello from Flask!"]

C2_Witness ==
  /\ variant = "blueprints"
  /\ Handled(1, "GET", <<"/", "api_v1", "/", "greeting">>)
  /\ threads[1].resp.status = 200

\* The methods under which a path is registered in the url map.
RegisteredMethods(path) ==
  UNION { url_map[i].methods :
            i \in {j \in DOMAIN url_map : RuleMatches(url_map[j].rule, path)} }

\* C3: a request for a path that is registered, but not under the request's
\* method, is answered MethodNotAllowed and never NotFound; a request for a
\* path registered under no method is answered NotFound.  In particular
\* POST /greeting (variants with /greeting on the app) and POST
\* /api_v1/greeting (blueprints) are MethodNotAllowed, GET /unknown is
\* NotFound.
C3_MethodNotAllowedVsNotFound ==
  \A t \in Threads :
    Done(t) =>
      LET r == threads[t]
          registered == RegisteredMethods(r.path)
      IN /\ (registered # {} /\ r.method \notin registered)
              => r.resp.status = 405 /\ r.resp.body = [error |-> "MethodNotAllowed"]
         /\ registered = {}
              => r.resp.status = 404 /\ r.resp.body = [error |-> "NotFound"]
         /\ (variant # "blueprints" /\ r.method = "POST"
               /\ r.path = <<"/", "greeting">>)
              => r.resp.status = 405
         /\ (variant = "blueprints" /\ r.method = "POST"
               /\ r.path = <<"/", "api_v1", "/", "greeting">>)
              => r.resp.status = 405
         /\ (r.method = "GET" /\ r.path = <<"/", "unknown">>)
              => r.resp.status = 404

C3_Witness ==
  /\ variant = "separate"
  /\ Handled(1, "POST", <<"/", "greeting">>)
  /\ threads[1].resp.status = 405
  /\ Handled(2, "GET", <<"/", "unknown">>)
  /\ threads[2].resp.status = 404

RECURSIVE Resolve(_, _)
\* The location a sequence of segments leads to from the application root.
Resolve(segs, at) ==
  IF segs = << >> THEN at
  ELSE IF Head(segs) = "."  THEN Resolve(Tail(segs), at)
  ELSE IF Head(segs) = ".."
  THEN Resolve(Tail(segs),
               IF at = << >> THEN at ELSE SubSeq(at, 1, Len(at) - 1))
  ELSE Resolve(Tail(segs), Append(at, Head(segs)))

\* The request was matched by a static rule and the rest of its path leads
\* out of the static folder of that rule.
EscapesStaticFolder(t) ==
  LET r == threads[t]
      folder == StaticFolderOf(r.route.endpoint)
  IN /\ r.route.error = ""
     /\ r.route.endpoint[Len(r.route.endpoint)] = "static"
     /\ ~IsPrefix(folder, Resolve(folder \o Segments(r.route.filename), << >>))

\* C6 as claimed: a static request whose remainder resolves outside the
\* asset directory is answered ForbiddenPathError and never file contents.
C6_Original ==
  \A t \in Threads :
    (Done(t) /\ threads[t].method = "GET" /\ EscapesStaticFolder(t))
      => threads[t].resp.body = [error |-> "ForbiddenPathError"]

\* C6 (amended): a static request whose remainder resolves outside the
\* asset directory is answered NotFound (404) and never file contents, also
\* when the file it resolves to exists.
C6_TraversalNotFound ==
  \A t \in Threads :
    (Done(t) /\ threads[t].method = "GET" /\ EscapesStaticFolder(t))
      => /\ threads[t].resp.status = 404
         /\ threads[t].resp.body = [error |-> "NotFound"]
         /\ "file" \notin DOMAIN threads[t].resp.body

C6_Witness ==
  /\ variant = "blueprints"
  /\ Handled(1, "GET", <<"/", "client", "/", "static", "/", "..", "/", "..",
                         "/", "etc", "/", "passwd">>)
  /\ threads[1].route.endpoint = <<"client_bp", "static">>
  /\ EscapesStaticFolder(1)
  /\ <<"etc", "passwd">> \in fs
  /\ Handled(2, "GET", <<"/", "client", "/", "static", "/", "js", "/", "..",
                         "/", "app.js">>)
  /\ threads[2].resp.body = [file |-> <<"client", "static", "app.js">>]

\* C7: in the serving state every request for a registered (method, path)
\* is answered with the result of the view bound to it: the responses of
\* GET /api_v1/greeting and GET / (blueprints) and of GET /greeting (the
\* other variants) are always the same, and two requests for the same
\* method and path that are in flight together have equal responses,
\* whatever the other threads are doing.
C7_DeterministicDispatch ==
  /\ \A t \in Threads :
       /\ (variant = "blueprints"
             /\ Handled(t, "GET", <<"/", "api_v1", "/", "greeting">>))
            => threads[t].resp =
                 [status |-> 200, body |-> [greeting |-> "Hello from Flask!"],
                  cors |-> FALSE]
       /\ (variant = "blueprints" /\ Handled(t, "GET", <<"/">>))
            => threads[t].resp =
                 [status |-> 200, body |-> [template |-> "index.html"],
                  cors |-> FALSE]
       /\ (variant # "blueprints" /\ Handled(t, "GET", <<"/", "greeting">>))
            => threads[t].resp =
                 [status |-> 200, body |-> [greeting |-> "Hello from Flask!"],
                  cors |-> (variant = "ssr")]
  /\ \A t, u \in Threads :
       (Done(t) /\ Done(u) /\ threads[t].method = threads[u].method
          /\ threads[t].path = threads[u].path)
         => threads[t].resp = threads[u].resp

C7_Witness ==
  /\ variant = "blueprints"
  /\ Handled(1, "GET", <<"/", "api_v1", "/", "greeting">>)
  /\ Handled(2, "GET", <<"/">>)
  /\ threads[1].resp.body = [greeting |-> "Hello from Flask!"]
  /\ threads[2].resp.body = [template |-> "index.html"]

\* Longest prefix and local path the join is tried on.
MaxJoinLen == 4

JoinStrings == UNION { [1..k -> {"/", "a"}] : k \in 0..MaxJoinLen }

\* Prefixes: empty or starting with "/", with any number of trailing "/";
\* the prefix of the api blueprint with and without a trailing "/".
JoinPrefixes ==
  {s \in JoinStrings : s = << >> \/ s[1] = "/"}
    \cup {<<"/", "api_v1">>, <<"/", "api_v1", "/">>}

\* Local paths start with "/".
JoinLocalPaths ==
  {s \in JoinStrings : s # << >> /\ s[1] = "/"} \cup {<<"/", "greeting">>}

AllSlashes(s) == \A i \in DOMAIN s : s[i] = "/"

\* r is prefix and local joined with exactly one "/" at the seam: some "/"
\* of r has the prefix less its trailing slashes before it and the local
\* path less its leading slashes after it, and no "/" next to it.
ExactlyOneSlashAtSeam(prefix, local, r) ==
  \E i \in 1..Len(r) :
    LET before == SubSeq(r, 1, i - 1)
        after == SubSeq(r, i + 1, Len(r))
    IN /\ r[i] = "/"
       /\ before = << >> \/ before[Len(before)] # "/"
       /\ after = << >> \/ after[1] # "/"
       /\ IsPrefix(before, prefix)
       /\ AllSlashes(SubSeq(prefix, Len(before) + 1, Len(prefix)))
       /\ Len(after) <= Len(local)
       /\ SubSeq(local, Len(local) - Len(after) + 1, Len(local)) = after
       /\ AllSlashes(SubSeq(local, 1, Len(local) - Len(after)))

JoinSeamOK ==
  \A prefix \in JoinPrefixes, local \in JoinLocalPaths :
    ExactlyOneSlashAtSeam(prefix, local,
                          ResolvedRule([url_prefix |-> prefix], local))

\* C8: mounting joins prefix and local path with exactly one "/" at the
\* seam for every prefix (empty, with or without trailing "/") and every
\* local path; once the blueprints are mounted the url map holds
\* /api_v1/greeting for the api blueprint's greeting and / for the client
\* blueprint's index, and GET / is dispatched to that index view.
C8_PrefixJoin ==
  /\ JoinSeamOK
  /\ (variant = "blueprints" /\ pc = "loaded") =>
       /\ \E i \in DOMAIN url_map :
            /\ url_map[i].rule = <<"/", "api_v1", "/", "greeting">>
            /\ url_map[i].endpoint = <<"api_bp", "greeting">>
       /\ \E i \in DOMAIN url_map :
            /\ url_map[i].rule = <<"/">>
            /\ url_map[i].endpoint = <<"client_bp", "index">>
  /\ \A t \in Threads :
       (variant = "blueprints" /\ Handled(t, "GET", <<"/">>))
         => /\ threads[t].route.endpoint = <<"client_bp", "index">>
            /\ threads[t].resp.body = [template |-> "index.html"]

C8_Witness ==
  /\ variant = "blueprints"
  /\ Handled(1, "GET", <<"/">>)
  /\ threads[1].resp.status = 200
  /\ Handled(2, "GET", <<"/", "api_v1", "/", "greeting">>)
  /\ threads[2].resp.status = 200

\* C9: once serving, no step changes the routing table: the url map and
\* the registered blueprints stay what they are through every request,
\* whatever its outcome, and serving never ends.
C9_RoutingTableFrozen ==
  [][state = "Serving" =>
       /\ url_map' = url_map
       /\ blueprints' = blueprints
       /\ state' = "Serving"]_vars

C9_Witness ==
  /\ state = "Serving"
  /\ variant = "blueprints"
  /\ Handled(1, "POST", <<"/">>)
  /\ threads[1].resp.status = 405
  /\ Handled(2, "GET", <<"/", "client", "/", "static", "/", "..", "/", "..",
                         "/", "etc", "/", "passwd">>)
  /\ threads[2].resp.status = 404
  /\ Len(url_map) = 4

\* The GET paths answered by a view of a route (not by a static rule).
RoutedGetPaths ==
  {p \in RequestPaths :
     LET r == Match(url_map, "GET", p)
     IN r.error = "" /\ r.endpoint[Len(r.endpoint)] # "static"}

\* C10: in the blueprints variant the routes are reachable only at their
\* resolved paths: the GET paths dispatched to a route's view are exactly
\* /api_v1/greeting and /, and GET /greeting, the api blueprint's local
\* path alone, is answered NotFound.
C10_OnlyResolvedPaths ==
  /\ (variant = "blueprints" /\ state = "Serving") =>
       RoutedGetPaths = { <<"/", "api_v1", "/", "greeting">>, <<"/">> }
  /\ \A t \in Threads :
       (variant = "blueprints" /\ Handled(t, "GET", <<"/", "greeting">>))
         => /\ threads[t].resp.status = 404
            /\ threads[t].resp.body = [error |-> "NotFound"]

C10_Witness ==
  /\ variant = "blueprints"
  /\ Handled(1, "GET", <<"/", "greeting">>)
  /\ threads[1].resp.status = 404
  /\ Handled(2, "GET", <<"/", "api_v1", "/", "greeting">>)
  /\ threads[2].resp.status = 200

====
